---- MODULE Spec2Model ----
(***************************************************************************)
(* A model of sanity.h: functions over STL vectors and maps that are       *)
(* treated as immutable.  Every library function is an operator that       *)
(* yields the set of outcomes a call can have.  An outcome records the     *)
(* argument as it is after the call (coll), how the call ended (st), the   *)
(* value returned (val) and whether the call read outside its argument or  *)
(* handed the STL an invalid iterator range (oob).  A call whose behaviour *)
(* is undefined has several outcomes.                                      *)
(***************************************************************************)
EXTENDS Integers, Sequences, FiniteSets

\* Bounds of the model.
MaxLen == 3
MaxVal == 2

\* Element values (the value_type of the vectors), and the vectors the
\* caller can hold.
Val == 0 .. MaxVal
Seqs == UNION {[1 .. k -> Val] : k \in 0 .. MaxLen}

\* Function arguments: a predicate is the set of the values it is true of,
\* a unary function is one of three named functions on Val.
Preds == SUBSET Val
Funcs == {"inc", "times2", "zero"}
Cmps == {"less", "greater"}

\* func(v) for a unary function argument (arithmetic wraps within Val).
Call1(func, v) ==
  CASE func = "inc" -> (v + 1) % (MaxVal + 1)
    [] func = "times2" -> (2 * v) % (MaxVal + 1)
    [] OTHER -> 0

\* comparisonFunction(a, b) for a comparison argument.
Call2(cmp, a, b) == IF cmp = "less" THEN a < b ELSE a > b

----------------------------------------------------------------------------
\* Outcomes of a call.

Ok(c, v) == [coll |-> c, st |-> "ok", val |-> v, oob |-> FALSE]
OobOk(c, v) == [coll |-> c, st |-> "ok", val |-> v, oob |-> TRUE]
Fail(c, s, v) == [coll |-> c, st |-> s, val |-> v, oob |-> TRUE]

\* What k reads past the end of a buffer can yield.
Garbage(k) == [1 .. k -> Val]

\* The values copied from the iterator range [coll.begin() + from,
\* coll.begin() + to), as vector's range constructor and assign() read them.
\* A range whose first iterator is beyond its last is invalid: the distance
\* is negative and the call crashes or throws length_error.  A range that
\* ends beyond coll.end() reads outside the vector.
CopyRange(coll, from, to) ==
  IF from > to
    THEN {Fail(coll, "crash", <<>>), Fail(coll, "length_error", <<>>)}
    ELSE IF to <= Len(coll)
      THEN {Ok(coll, SubSeq(coll, from + 1, to))}
      ELSE {Fail(coll, "crash", <<>>)} \cup
           {OobOk(coll, SubSeq(coll, from + 1, Len(coll)) \o g) :
              g \in Garbage(to - (IF from > Len(coll) THEN from ELSE Len(coll)))}

----------------------------------------------------------------------------
\* Sequence operations.

\* rest(coll): C(coll.begin() + 1, coll.end()).
rest(coll) == CopyRange(coll, 1, Len(coll))

RECURSIVE mapLoop(_, _, _, _)
mapLoop(coll, func, k, result) ==
  IF k > Len(coll) THEN result
  ELSE mapLoop(coll, func, k + 1, Append(result, Call1(func, coll[k])))

\* map(coll, func): push_back(func(element)) for each element.
map(coll, func) == {Ok(coll, mapLoop(coll, func, 1, <<>>))}

RECURSIVE filterLoop(_, _, _, _)
filterLoop(coll, predicate, k, result) ==
  IF k > Len(coll) THEN result
  ELSE filterLoop(coll, predicate, k + 1,
                  IF coll[k] \in predicate THEN Append(result, coll[k])
                  ELSE result)

\* filter(coll, predicate): push_back each element the predicate is true of.
filter(coll, predicate) == {Ok(coll, filterLoop(coll, predicate, 1, <<>>))}

\* A remove that forgets the negation.
removeSame(coll, predicate) == filter(coll, predicate)

\* remove(coll, predicate): filter with the lambda !predicate(elem).
remove(coll, predicate) == filter(coll, Val \ predicate)

RECURSIVE insertSorted(_, _, _)
insertSorted(s, v, cmp) ==
  IF s = <<>> THEN <<v>>
  ELSE IF Call2(cmp, v, Head(s)) THEN <<v>> \o s
  ELSE <<Head(s)>> \o insertSorted(Tail(s), v, cmp)

RECURSIVE stdSort(_, _)
stdSort(s, cmp) ==
  IF s = <<>> THEN <<>>
  ELSE insertSorted(stdSort(Tail(s), cmp), Head(s), cmp)

\* sort(coll, comparisonFunction): copy coll, std::sort the copy.
sortBy(coll, cmp) == {Ok(coll, stdSort(coll, cmp))}

\* A sort that sorts its argument itself and returns it.
sortInPlace(coll) ==
  {[coll |-> stdSort(coll, "less"), st |-> "ok", val |-> stdSort(coll, "less"),
    oob |-> FALSE]}

\* sort(coll): copy coll, std::sort the copy with operator<.
sort(coll) == {Ok(coll, stdSort(coll, "less"))}

\* The permutations of 1 .. n.
Perms(n) == {p \in [1 .. n -> 1 .. n] : \A i, j \in 1 .. n : p[i] = p[j] => i = j}

\* shuffle(coll): copy coll, std::random_shuffle the copy; any permutation.
shuffle(coll) ==
  {Ok(coll, [i \in 1 .. Len(coll) |-> coll[p[i]]]) : p \in Perms(Len(coll))}

\* reverse(coll): copy coll, std::reverse the copy.
reverse(coll) ==
  {Ok(coll, [i \in 1 .. Len(coll) |-> coll[Len(coll) + 1 - i]])}

\* nth(coll, index, notFound): coll.size() >= index ? notFound : coll[index].
nth(coll, index, notFound) ==
  IF Len(coll) >= index
    THEN {Ok(coll, notFound)}
    ELSE {Fail(coll, "crash", notFound)} \cup {OobOk(coll, g) : g \in Val}

\* cons(coll, item): assign the whole of coll, insert item at begin().
cons(coll, item) ==
  {[o EXCEPT !.val = <<item>> \o o.val] : o \in CopyRange(coll, 0, Len(coll))}

\* conj(coll, item): assign the whole of coll, push_back item.
conj(coll, item) ==
  {[o EXCEPT !.val = Append(o.val, item)] : o \in CopyRange(coll, 0, Len(coll))}

\* A take with the comparison turned round: the first n elements.
takeFirstN(coll, n) ==
  IF Len(coll) < n THEN {Ok(coll, coll)} ELSE CopyRange(coll, 0, n)

\* take(coll, n): coll itself when coll.size() > n, else
\* assign(coll.begin(), coll.begin() + n).
take(coll, n) ==
  IF Len(coll) > n THEN {Ok(coll, coll)} ELSE CopyRange(coll, 0, n)

RECURSIVE takeWhileLoop(_, _, _, _)
takeWhileLoop(coll, predicate, k, result) ==
  IF k > Len(coll) THEN result
  ELSE IF coll[k] \in predicate
    THEN takeWhileLoop(coll, predicate, k + 1, Append(result, coll[k]))
    ELSE result

\* takeWhile(coll, predicate): push_back elements until the predicate fails.
takeWhile(coll, predicate) == {Ok(coll, takeWhileLoop(coll, predicate, 1, <<>>))}

\* drop(coll, n): the empty vector when coll.size() > n, else
\* assign(coll.begin() + n, coll.end()).
drop(coll, n) ==
  IF Len(coll) > n THEN {Ok(coll, <<>>)} ELSE CopyRange(coll, n, Len(coll))

RECURSIVE countLeadingTrues(_, _, _)
countLeadingTrues(coll, predicate, k) ==
  IF k > Len(coll) THEN 0
  ELSE IF coll[k] \in predicate
    THEN 1 + countLeadingTrues(coll, predicate, k + 1)
    ELSE 0

\* dropWhile(coll, predicate): assign(coll.begin() + leadingTrues, coll.end()).
dropWhile(coll, predicate) ==
  CopyRange(coll, countLeadingTrues(coll, predicate, 1), Len(coll))

RECURSIVE concatLoop(_, _, _)
concatLoop(result, coll2, k) ==
  IF k > Len(coll2) THEN result
  ELSE concatLoop(Append(result, coll2[k]), coll2, k + 1)

\* concat(coll1, coll2): assign the whole of the first vector, push_back each
\* element of the second (the body names its parameters vec1 and vec2).
concat(coll1, coll2) ==
  {[o EXCEPT !.val = concatLoop(o.val, coll2, 1)] :
     o \in CopyRange(coll1, 0, Len(coll1))}

RECURSIVE iterateLoop(_, _, _, _, _)
iterateLoop(n, func, i, memo, result) ==
  IF i < n
    THEN iterateLoop(n, func, i + 1, Call1(func, memo),
                     Append(result, Call1(func, memo)))
    ELSE result

\* iterate(n, func, val): push_back val, then for i = 1 .. n - 1 apply func to
\* memo and push_back.  calls counts the applications of func.
iterate(n, func, val) ==
  {[coll |-> <<>>, st |-> "ok", val |-> iterateLoop(n, func, 1, val, <<val>>),
    oob |-> FALSE, calls |-> IF n > 1 THEN n - 1 ELSE 0]}

----------------------------------------------------------------------------
\* Map operations.  delete result[key] in dissoc takes a pointer, so the
\* mapped type V is a pointer type: maps go from keys to pointers, and live
\* is the set of pointers whose object has not been deleted.

MaxKey == 2
MaxPtr == 2
Keys == 0 .. MaxKey
Ptr == 1 .. MaxPtr
Maps == UNION {[d -> Ptr] : d \in SUBSET Keys}

\* hasKey(map, key): find(key) != end().  The parameter map is written kmap
\* here and below, as hasKey's body names it.
hasKey(kmap, key) == key \in DOMAIN kmap

\* assoc(map, key, val): copy map, result[key] = val.
assoc(kmap, key, val) ==
  {[coll |-> kmap, st |-> "ok", oob |-> FALSE, freed |-> {},
    val |-> [k \in DOMAIN kmap \cup {key} |-> IF k = key THEN val ELSE kmap[k]]]}

\* dissoc(map, key): when the key is present, copy map and delete the object
\* result[key] points to, leaving the entry in the copy; else return map.
\* Deleting an object that is not live is a double free: the call crashes or
\* goes on.
dissoc(kmap, key, live) ==
  IF hasKey(kmap, key)
    THEN {[coll |-> kmap, st |-> "ok", oob |-> FALSE, freed |-> {kmap[key]},
           val |-> kmap]}
         \cup (IF kmap[key] \in live THEN {}
               ELSE {[coll |-> kmap, st |-> "crash", oob |-> FALSE,
                      freed |-> {}, val |-> kmap]})
    ELSE {[coll |-> kmap, st |-> "ok", oob |-> FALSE, freed |-> {}, val |-> kmap]}

----------------------------------------------------------------------------
\* The caller.

\* Bounds of the arguments of range, and the number of elements a vector can
\* grow to before push_back throws bad_alloc (more than any range within the
\* bounds has; an int i cannot overflow before memory runs out).
MaxRange == 3
MaxStep == 2
MaxAlloc == 2 * MaxRange + 2

VARIABLES
  x,      \* the vector the caller passes to the library
  m,      \* the map the caller passes to the library
  heap,   \* the pointers in map values whose object is live
  call,   \* the call made last: the operation, its argument as it was before
          \* the call, and its other arguments
  ret,    \* the outcome of that call
  frame   \* the loop of range: its arguments, i and result

vars == <<x, m, heap, call, ret, frame>>

\* Operations that return a vector.
SeqOps == {"rest", "map", "filter", "remove", "sort", "sortBy", "shuffle",
           "reverse", "cons", "conj", "take", "takeWhile", "drop",
           "dropWhile", "concat", "concatTakeDrop"}

NoCall == [op |-> "none", arg |-> <<>>, n |-> 0, pred |-> {}, func |-> "zero",
           item |-> 0, chained |-> FALSE]
NoRet == Ok(<<>>, <<>>)
NoFrame == [pc |-> "idle", start |-> 0, end |-> 0, step |-> 0, i |-> 0,
            result |-> <<>>]

\* A crash ends the program; an exception is left to the caller.  range has
\* the control while its loop runs.
Running == ret.st # "crash" /\ frame.pc # "loop"

\* The caller is between two calls on x.
Ready == Running /\ call.op = "none"

\* The caller evaluates an operation on x: the call leaves x as the outcome
\* says and returns the outcome's value.
Invoke(c, outcomes) ==
  /\ \E o \in outcomes :
       /\ x' = o.coll
       /\ ret' = o
  /\ call' = [c EXCEPT !.arg = x, !.chained = call.chained]
  /\ UNCHANGED <<m, heap, frame>>

RestCall ==
  /\ Ready
  /\ Invoke([NoCall EXCEPT !.op = "rest"], rest(x))

MapCall ==
  \E f \in Funcs :
    /\ Ready
    /\ Invoke([NoCall EXCEPT !.op = "map", !.func = f], map(x, f))

FilterCall ==
  \E p \in Preds :
    /\ Ready
    /\ Invoke([NoCall EXCEPT !.op = "filter", !.pred = p], filter(x, p))

RemoveCall ==
  \E p \in Preds :
    /\ Ready
    /\ Invoke([NoCall EXCEPT !.op = "remove", !.pred = p], remove(x, p))

SortCall ==
  /\ Ready
  /\ Invoke([NoCall EXCEPT !.op = "sort"], sort(x))

SortByCall ==
  \E c \in Cmps :
    /\ Ready
    /\ Invoke([NoCall EXCEPT !.op = "sortBy", !.func = c], sortBy(x, c))

ShuffleCall ==
  /\ Ready
  /\ Invoke([NoCall EXCEPT !.op = "shuffle"], shuffle(x))

ReverseCall ==
  /\ Ready
  /\ Invoke([NoCall EXCEPT !.op = "reverse"], reverse(x))

NthCall ==
  \E index \in 0 .. MaxLen + 1, notFound \in Val :
    /\ Ready
    /\ Invoke([NoCall EXCEPT !.op = "nth", !.n = index, !.item = notFound],
              nth(x, index, notFound))

ConsCall ==
  \E item \in Val :
    /\ Ready
    /\ Invoke([NoCall EXCEPT !.op = "cons", !.item = item], cons(x, item))

ConjCall ==
  \E item \in Val :
    /\ Ready
    /\ Invoke([NoCall EXCEPT !.op = "conj", !.item = item], conj(x, item))

TakeCall ==
  \E n \in 0 .. MaxLen + 1 :
    /\ Ready
    /\ Invoke([NoCall EXCEPT !.op = "take", !.n = n], take(x, n))

TakeWhileCall ==
  \E p \in Preds :
    /\ Ready
    /\ Invoke([NoCall EXCEPT !.op = "takeWhile", !.pred = p], takeWhile(x, p))

DropCall ==
  \E n \in 0 .. MaxLen + 1 :
    /\ Ready
    /\ Invoke([NoCall EXCEPT !.op = "drop", !.n = n], drop(x, n))

DropWhileCall ==
  \E p \in Preds :
    /\ Ready
    /\ Invoke([NoCall EXCEPT !.op = "dropWhile", !.pred = p], dropWhile(x, p))

\* concat(a, b) where a and b are themselves calls on coll: both arguments
\* are evaluated, and concat is called when neither failed.
concatOf(coll, as, bs) ==
  {[o EXCEPT !.coll = coll, !.oob = o.oob \/ (\E a \in as \cup bs : a.oob)] :
     o \in UNION {concat(q[1].val, q[2].val) :
                    q \in {r \in as \X bs : r[1].st = "ok" /\ r[2].st = "ok"}}}
  \cup {[a EXCEPT !.val = <<>>] : a \in {q \in as \cup bs : q.st # "ok"}}

\* concat(take(x, n), drop(x, n)).
ConcatTakeDropCall ==
  \E n \in 0 .. MaxLen + 1 :
    /\ Ready
    /\ Invoke([NoCall EXCEPT !.op = "concatTakeDrop", !.n = n],
              concatOf(x, take(x, n), drop(x, n)))

\* concat(x, x).
ConcatCall ==
  /\ Ready
  /\ 2 * Len(x) <= MaxLen + 1
  /\ Invoke([NoCall EXCEPT !.op = "concat"], concat(x, x))

\* The caller drops the value returned and goes on with x, as in
\* y1 = filter(x, ...); y2 = remove(x, ...).
Discard ==
  /\ Running
  /\ call.op # "none"
  /\ call' = [NoCall EXCEPT !.chained = call.chained]
  /\ ret' = NoRet
  /\ UNCHANGED <<x, m, heap, frame>>

\* The output of one call is the input of the next, as in
\* filter(map(x, times2), positive).
Feed ==
  /\ Running
  /\ call.op \in SeqOps
  /\ ret.st = "ok"
  /\ Len(ret.val) <= MaxLen
  /\ x' = ret.val
  /\ call' = [NoCall EXCEPT !.chained = TRUE]
  /\ ret' = NoRet
  /\ UNCHANGED <<m, heap, frame>>

Init ==
  /\ x \in Seqs
  /\ m = <<>>
  /\ heap = Ptr
  /\ call = NoCall
  /\ ret = NoRet
  /\ frame = NoFrame

Next ==
  \/ RestCall \/ MapCall \/ FilterCall \/ RemoveCall
  \/ SortCall \/ SortByCall \/ ShuffleCall \/ ReverseCall
  \/ NthCall \/ ConsCall \/ ConjCall
  \/ TakeCall \/ TakeWhileCall \/ DropCall \/ DropWhileCall
  \/ ConcatTakeDropCall \/ ConcatCall
  \/ Discard \/ Feed

\* The caller of the sequence operations.
Spec == Init /\ [][Next]_vars

----------------------------------------------------------------------------
\* The caller of the producers: range and iterate.

\* range(start, end, step): result is empty and i is start.
rangeEnter(start, end, step) ==
  [pc |-> "loop", start |-> start, end |-> end, step |-> step, i |-> start,
   result |-> <<>>]

RangeEnter(c, start, end, step) ==
  /\ frame' = rangeEnter(start, end, step)
  /\ call' = c
  /\ ret' = NoRet
  /\ UNCHANGED <<x, m, heap>>

\* range(start, end, step).
RangeCall ==
  \E start, end \in -MaxRange .. MaxRange, step \in -MaxStep .. MaxStep :
    /\ Running
    /\ RangeEnter([NoCall EXCEPT !.op = "range", !.n = 3], start, end, step)

\* range(start, end): range(start, end, 1).
Range2Call ==
  \E start, end \in -MaxRange .. MaxRange :
    /\ Running
    /\ RangeEnter([NoCall EXCEPT !.op = "range", !.n = 2], start, end, 1)

\* range(end): range((long) 0, end, 1).
Range1Call ==
  \E end \in -MaxRange .. MaxRange :
    /\ Running
    /\ RangeEnter([NoCall EXCEPT !.op = "range", !.n = 1], 0, end, 1)

\* The loop test of range.
rangeTest(f) == f.i < f.end

\* One iteration of the loop of range: push_back(i), i += step.
rangeBody(f) == [f EXCEPT !.result = Append(@, f.i), !.i = @ + f.step]

RangeLoop ==
  /\ frame.pc = "loop"
  /\ rangeTest(frame)
  /\ Len(frame.result) < MaxAlloc
  /\ frame' = rangeBody(frame)
  /\ UNCHANGED <<x, m, heap, call, ret>>

\* push_back finds no memory for a vector that has grown to MaxAlloc.
RangeBadAlloc ==
  /\ frame.pc = "loop"
  /\ rangeTest(frame)
  /\ Len(frame.result) >= MaxAlloc
  /\ frame' = [frame EXCEPT !.pc = "done"]
  /\ ret' = Fail(<<>>, "bad_alloc", <<>>)
  /\ UNCHANGED <<x, m, heap, call>>

RangeReturn ==
  /\ frame.pc = "loop"
  /\ ~rangeTest(frame)
  /\ frame' = [frame EXCEPT !.pc = "done"]
  /\ ret' = Ok(<<>>, frame.result)
  /\ UNCHANGED <<x, m, heap, call>>

IterateCall ==
  \E n \in 0 .. MaxLen, f \in Funcs, seed \in Val :
    /\ Running
    /\ \E o \in iterate(n, f, seed) : ret' = o
    /\ call' = [NoCall EXCEPT !.op = "iterate", !.n = n, !.func = f,
                              !.item = seed]
    /\ frame' = NoFrame
    /\ UNCHANGED <<x, m, heap>>

InitGen ==
  /\ x = <<>>
  /\ m = <<>>
  /\ heap = Ptr
  /\ call = NoCall
  /\ ret = NoRet
  /\ frame = NoFrame

NextGen ==
  \/ RangeCall \/ Range2Call \/ Range1Call
  \/ RangeLoop \/ RangeBadAlloc \/ RangeReturn
  \/ IterateCall

SpecGen == InitGen /\ [][NextGen]_vars

----------------------------------------------------------------------------
\* The caller of the map operations.

InvokeMap(c, outcomes) ==
  /\ \E o \in outcomes :
       /\ m' = o.coll
       /\ heap' = heap \ o.freed
       /\ ret' = o
  /\ call' = [c EXCEPT !.arg = m]
  /\ UNCHANGED <<x, frame>>

HasKeyCall ==
  \E key \in Keys :
    /\ Running
    /\ InvokeMap([NoCall EXCEPT !.op = "hasKey", !.n = key],
                 {[coll |-> m, st |-> "ok", oob |-> FALSE, freed |-> {},
                   val |-> hasKey(m, key)]})

AssocCall ==
  \E key \in Keys, val \in Ptr :
    /\ Running
    /\ InvokeMap([NoCall EXCEPT !.op = "assoc", !.n = key, !.item = val],
                 assoc(m, key, val))

DissocCall ==
  \E key \in Keys :
    /\ Running
    /\ InvokeMap([NoCall EXCEPT !.op = "dissoc", !.n = key],
                 dissoc(m, key, heap))

\* The caller goes on with the map a call returned.
FeedMap ==
  /\ Running
  /\ call.op \in {"assoc", "dissoc"}
  /\ ret.st = "ok"
  /\ m' = ret.val
  /\ call' = [NoCall EXCEPT !.chained = TRUE]
  /\ ret' = NoRet
  /\ UNCHANGED <<x, heap, frame>>

InitMap ==
  /\ x = <<>>
  /\ m \in Maps
  /\ heap = Ptr
  /\ call = NoCall
  /\ ret = NoRet
  /\ frame = NoFrame

NextMap == HasKeyCall \/ AssocCall \/ DissocCall \/ FeedMap

SpecMap == InitMap /\ [][NextMap]_vars

----------------------------------------------------------------------------
\* Properties of the sequence operations (checked under Spec).

FrameOps == {"map", "filter", "remove", "sort", "sortBy", "shuffle",
             "reverse", "cons", "conj", "take", "drop", "takeWhile",
             "dropWhile", "rest"}

\* C1: after a call of a sequence operation, on the caller's own vector or on
\* the vector a previous call returned, the argument has the same elements in
\* the same order as before the call.
C1_InputUnchanged == call.op \in FrameOps => x = call.arg

\* A sort, fed with the result of an earlier call, that returned a vector
\* ordered differently from its argument.
C1_Witness ==
  /\ call.op = "sort"
  /\ call.chained
  /\ ret.st = "ok"
  /\ ret.val # call.arg
  /\ x = call.arg

\* C2: for n >= 0, take(s, n) returns the first n elements of s when
\* n < length(s) and s when n >= length(s); drop(s, n) returns the elements
\* from position n on when n < length(s) and the empty sequence when
\* n >= length(s).
C2_TakeDrop ==
  LET s == call.arg
      n == call.n
  IN /\ call.op = "take" =>
          /\ ret.st = "ok"
          /\ ret.val = IF n < Len(s) THEN SubSeq(s, 1, n) ELSE s
     /\ call.op = "drop" =>
          /\ ret.st = "ok"
          /\ ret.val = IF n < Len(s) THEN SubSeq(s, n + 1, Len(s)) ELSE <<>>

C4_NthNotFound ==
  call.op = "nth" =>
    /\ ret.st = "ok"
    /\ ~ret.oob
    /\ ret.val = IF call.n < Len(call.arg) THEN call.arg[call.n + 1]
                 ELSE call.item

\* negate(p): the predicate that is true where p is false.
Negate(p) == Val \ p

\* C7: filter(s, p) is the subsequence of the elements of s that satisfy p,
\* in their order in s; remove(s, p) is the subsequence of those that do not;
\* filter(s, p) equals remove(s, negate(p)); the two lengths add up to the
\* length of s.
C7_FilterRemove ==
  LET s == call.arg
      p == call.pred
  IN /\ call.op = "filter" =>
          /\ ret.st = "ok"
          /\ ret.val = SelectSeq(s, LAMBDA v : v \in p)
          /\ \A r \in remove(s, Negate(p)) : r.st = "ok" /\ r.val = ret.val
          /\ \A r \in remove(s, p) : Len(ret.val) + Len(r.val) = Len(s)
     /\ call.op = "remove" =>
          /\ ret.st = "ok"
          /\ ret.val = SelectSeq(s, LAMBDA v : v \notin p)
          /\ \A r \in filter(s, p) : Len(ret.val) + Len(r.val) = Len(s)

\* A filter that kept two different elements of a longer vector.
C7_Witness ==
  /\ call.op = "filter"
  /\ ret.st = "ok"
  /\ Len(ret.val) = 2
  /\ Len(call.arg) > 2
  /\ ret.val[1] # ret.val[2]

\* C8: rest(s) returns the elements of s at positions 1 to n - 1; rest of the
\* empty sequence returns the empty sequence, without failing and without
\* reading outside s.
C8_Rest ==
  call.op = "rest" =>
    /\ ret.st = "ok"
    /\ ~ret.oob
    /\ ret.val = IF call.arg = <<>> THEN <<>> ELSE Tail(call.arg)

----------------------------------------------------------------------------
\* Properties of the producers (checked under SpecGen).

\* The values start + k * step, k = 0, 1, ..., on the side of end that start
\* is on: below end for a positive step, above end for a negative one.
Progression(start, end, step) ==
  LET ks == {k \in 0 .. 2 * MaxRange :
               IF step > 0 THEN start + k * step < end
               ELSE start + k * step > end}
  IN [j \in 1 .. Cardinality(ks) |-> start + (j - 1) * step]

\* C5: for step # 0, range(start, end, step) returns the values
\* start + k * step in [start, end), ascending for step > 0 and descending for
\* step < 0; range(start, end) has step 1 and range(end) has start 0, step 1.
C5_Range ==
  (call.op = "range" /\ frame.pc = "done") =>
    /\ call.n = 2 => frame.step = 1
    /\ call.n = 1 => frame.start = 0 /\ frame.step = 1
    /\ frame.step # 0 =>
         /\ ret.st = "ok"
         /\ ret.val = Progression(frame.start, frame.end, frame.step)

\* C6: range(start, end, 0) fails with InvalidArgument at the point of the
\* call: it adds no element to a result, and it ends with that error only.
C6_RangeZeroStep ==
  (call.op = "range" /\ frame.step = 0) =>
    /\ frame.result = <<>>
    /\ frame.pc = "done" => ret.st = "InvalidArgument"

RECURSIVE Power(_, _, _)
Power(func, k, v) == IF k = 0 THEN v ELSE Call1(func, Power(func, k - 1, v))

\* C9: iterate(n, f, seed) returns n elements, the one at position k being f
\* applied k times to seed; iterate(0, f, seed) is empty, and f is applied at
\* most n - 1 times.
C9_Iterate ==
  call.op = "iterate" =>
    /\ ret.st = "ok"
    /\ Len(ret.val) = call.n
    /\ \A k \in 1 .. Len(ret.val) : ret.val[k] = Power(call.func, k - 1, call.item)
    /\ ret.calls <= IF call.n = 0 THEN 0 ELSE call.n - 1

----------------------------------------------------------------------------
\* Properties of the map operations (checked under SpecMap).

\* C10: dissoc(m, k) returns a map without k that agrees with m on every
\* other key when k is in m, and a map equal to m when k is not in m; it does
\* not fail and leaves m unchanged.
C10_Dissoc ==
  call.op = "dissoc" =>
    LET a == call.arg
        k == call.n
    IN /\ ret.st = "ok"
       /\ m = a
       /\ k \in DOMAIN a =>
            /\ DOMAIN ret.val = DOMAIN a \ {k}
            /\ \A j \in DOMAIN a \ {k} : ret.val[j] = a[j]
       /\ k \notin DOMAIN a => ret.val = a

====
